---- MODULE Spec2Model ----
(***************************************************************************)
(* A model of the Glove80 HRM transfer scripts: copy_hrm_bindings.py,      *)
(* hrm_utils.py, swap_base_layers.py, insert_hrm_layer.py and              *)
(* rename_hrm_names.py.                                                    *)
(*                                                                         *)
(* Python values are represented as follows.                               *)
(*   str   a sequence of one-character strings, so that the string         *)
(*         functions of hrm_utils.py are computed character by character;  *)
(*   list  a sequence; Python index i is position i + 1;                   *)
(*   dict  a record, an absent key being a field outside its DOMAIN;       *)
(*   a JSON value whose type the code tests is tagged: [int |-> 3] or      *)
(*   [str |-> s].                                                          *)
(***************************************************************************)
EXTENDS Integers, Sequences, FiniteSets, TLC

VARIABLES
    pc,              \* position of the running script
    value,           \* hrm_utils: the name being rewritten
    prev,            \* hrm_utils: the earlier values of the name, oldest first
    ops,             \* hrm_utils: the rewrites applied so far
    source,          \* copy: the source layout document
    names,           \* collect_support_objects: the seed names
    collect,         \* collect_support_objects: its local variables
    target,          \* copy: the target layout document
    macros,          \* copy: the deep copies of the collected macros
    required_layer_indices,  \* copy: the layer indices the macros use
    layer_index_map, \* copy: what ensure_layers returned
    loaded,          \* the documents as load_json first returned them
    data,            \* swap, insert, rename: the layout document
    output,          \* the document written to the output path, if any
    runs,            \* how many times the script has been started
    args,            \* copy: the parsed command line
    src_layer_idx,   \* copy: the index of the layer named by --src-layer
    dst_layer_idx,   \* copy: the index of the layer named by --dst-layer
    entries,         \* copy: the (index, key) pairs found on the source layer
    holdtaps         \* copy: the deep copies of the collected hold-taps

nameVars == <<value, prev, ops>>
collectVars == <<names, collect>>
layerVars == <<target, macros, required_layer_indices, layer_index_map>>
fileVars == <<data, output, runs>>
copyVars == <<args, src_layer_idx, dst_layer_idx, entries, holdtaps>>
vars == <<pc, value, prev, ops, source, names, collect, target, macros,
          required_layer_indices, layer_index_map, loaded, data, output, runs,
          args, src_layer_idx, dst_layer_idx, entries, holdtaps>>

\* No file at the output path
NoFile == [absent |-> TRUE]

\* The variables of a part of the program that a specification leaves out
IdleNames == value = <<>> /\ prev = <<>> /\ ops = <<>>
IdleCollect == names = <<>> /\ collect = <<>>
IdleLayers ==
    /\ target = <<>>
    /\ macros = <<>>
    /\ required_layer_indices = {}
    /\ layer_index_map = <<>>
IdleDocs == source = <<>> /\ loaded = <<>>
IdleFiles == data = <<>> /\ output = NoFile /\ runs = 0
IdleCopy ==
    /\ args = <<>>
    /\ src_layer_idx = -1
    /\ dst_layer_idx = -1
    /\ entries = <<>>
    /\ holdtaps = <<>>

-----------------------------------------------------------------------------
(* Python str methods, on sequences of characters                          *)

LowerChars == <<"a","b","c","d","e","f","g","h","i","j","k","l","m",
                "n","o","p","q","r","s","t","u","v","w","x","y","z">>
UpperChars == <<"A","B","C","D","E","F","G","H","I","J","K","L","M",
                "N","O","P","Q","R","S","T","U","V","W","X","Y","Z">>
DigitChars == {"0","1","2","3","4","5","6","7","8","9"}

Letters == 1..Len(LowerChars)

IsUpperChar(c) == \E i \in Letters : UpperChars[i] = c
IsLowerChar(c) == \E i \in Letters : LowerChars[i] = c
IsAlnum(c) == c \in DigitChars \/ IsUpperChar(c) \/ IsLowerChar(c)

lower_char(c) ==
    IF IsUpperChar(c)
    THEN LowerChars[CHOOSE i \in Letters : UpperChars[i] = c]
    ELSE c

upper_char(c) ==
    IF IsLowerChar(c)
    THEN UpperChars[CHOOSE i \in Letters : LowerChars[i] = c]
    ELSE c

lower(s) == [i \in 1..Len(s) |-> lower_char(s[i])]
upper(s) == [i \in 1..Len(s) |-> upper_char(s[i])]

\* str.capitalize(): first character upper-cased, the rest lower-cased
capitalize(s) ==
    IF s = <<>> THEN s ELSE <<upper_char(s[1])>> \o lower(Tail(s))

startswith(s, p) == Len(s) >= Len(p) /\ SubSeq(s, 1, Len(p)) = p

From(s, i) == SubSeq(s, i, Len(s))

Range(seq) == {seq[i] : i \in 1..Len(seq)}

\* s.split(sep) for a one-character separator: never the empty list
RECURSIVE split(_, _)
split(s, sep) ==
    IF \A i \in 1..Len(s) : s[i] # sep
    THEN <<s>>
    ELSE LET i == CHOOSE j \in 1..Len(s) :
                      s[j] = sep /\ \A k \in 1..(j - 1) : s[k] # sep
         IN <<SubSeq(s, 1, i - 1)>> \o split(From(s, i + 1), sep)

\* sep.join(parts)
RECURSIVE join(_, _)
join(parts, sep) ==
    IF parts = <<>> THEN <<>>
    ELSE IF Len(parts) = 1 THEN parts[1]
    ELSE parts[1] \o <<sep>> \o join(Tail(parts), sep)

\* s.replace(old, ""): leftmost non-overlapping occurrences, one pass
RECURSIVE remove_all(_, _)
remove_all(s, old) ==
    IF Len(s) < Len(old) THEN s
    ELSE IF startswith(s, old) THEN remove_all(From(s, Len(old) + 1), old)
    ELSE <<s[1]>> \o remove_all(Tail(s), old)

\* s.strip("_")
RECURSIVE strip_underscores(_)
strip_underscores(s) ==
    IF s = <<>> THEN s
    ELSE IF s[1] = "_" THEN strip_underscores(Tail(s))
    ELSE IF s[Len(s)] = "_" THEN strip_underscores(SubSeq(s, 1, Len(s) - 1))
    ELSE s

\* re.sub(r"\d+$", "", s)
RECURSIVE strip_trailing_digits(_)
strip_trailing_digits(s) ==
    IF s # <<>> /\ s[Len(s)] \in DigitChars
    THEN strip_trailing_digits(SubSeq(s, 1, Len(s) - 1))
    ELSE s

\* re.sub(r"v\d+$", "", s)
strip_version_digits(s) ==
    LET t == strip_trailing_digits(s)
    IN IF Len(t) < Len(s) /\ t # <<>> /\ t[Len(t)] = "v"
       THEN SubSeq(t, 1, Len(t) - 1)
       ELSE s

\* [x for x in seq if x]
RECURSIVE drop_empty(_)
drop_empty(seq) ==
    IF seq = <<>> THEN <<>>
    ELSE IF seq[1] = <<>> THEN drop_empty(Tail(seq))
    ELSE <<seq[1]>> \o drop_empty(Tail(seq))

-----------------------------------------------------------------------------
(* hrm_utils.py: the naming tables                                         *)

sHRM == <<"H","R","M">>
sLegacyPrefix == <<"&","H","R","M","_">>
sCanonPrefix == <<"&","B","H","R","M","_">>
sTKZ == <<"_","T","K","Z">>
sHold == <<"h","o","l","d">>
sTap == <<"t","a","p">>

HAND_MAP ==
    (<<"l","e","f","t">> :> <<"L">>) @@ (<<"r","i","g","h","t">> :> <<"R">>)

FINGER_MAP ==
    (<<"i","n","d","e","x">> :> <<"I","n","d","e","x">>)
    @@ (<<"m","i","d","d","l","e">> :> <<"M","i","d","d","l","e">>)
    @@ (<<"m","i","d","d","y">> :> <<"M","i","d","d","l","e">>)
    @@ (<<"r","i","n","g">> :> <<"R","i","n","g">>)
    @@ (<<"r","i","n","g","y">> :> <<"R","i","n","g">>)
    @@ (<<"p","i","n","k","y">> :> <<"P","i","n","k","y">>)

ROLE_MAP == (sHold :> <<"H","o","l","d">>) @@ (sTap :> <<"T","a","p">>)

\* re.sub(r"_v[0-9A-Za-z]*(_TKZ)?$", "", name): the leftmost match is cut
normalize_base(name) ==
    LET AllAlnum(r) == \A i \in 1..Len(r) : IsAlnum(r[i])
        Tail_ok(r) ==
            \/ AllAlnum(r)
            \/ /\ Len(r) >= Len(sTKZ)
               /\ From(r, Len(r) - Len(sTKZ) + 1) = sTKZ
               /\ AllAlnum(SubSeq(r, 1, Len(r) - Len(sTKZ)))
        Match(i) ==
            /\ i + 1 <= Len(name)
            /\ name[i] = "_"
            /\ name[i + 1] = "v"
            /\ Tail_ok(From(name, i + 2))
        hits == {i \in 1..Len(name) : Match(i)}
    IN IF hits = {} THEN name
       ELSE SubSeq(name, 1, (CHOOSE i \in hits : \A j \in hits : i <= j) - 1)

clean_token(token) ==
    strip_underscores(strip_trailing_digits(strip_version_digits(
        remove_all(lower(token), <<"t","k","z">>))))

format_token(token) ==
    LET t == clean_token(token)
    IN IF t = <<>> THEN <<>>
       ELSE IF t \in DOMAIN FINGER_MAP THEN FINGER_MAP[t]
       ELSE capitalize(t)

format_tokens(tokens) ==
    drop_empty([i \in 1..Len(tokens) |-> format_token(tokens[i])])

\* rename_hrm's loop over tokens[1:]: the first role token becomes the role,
\* every other token an extra
RECURSIVE split_role(_, _, _)
split_role(tokens, role, extras) ==
    IF tokens = <<>> THEN [role |-> role, extras |-> extras]
    ELSE IF lower(tokens[1]) \in DOMAIN ROLE_MAP /\ role = <<>>
    THEN split_role(Tail(tokens), ROLE_MAP[lower(tokens[1])], extras)
    ELSE split_role(Tail(tokens), role, Append(extras, tokens[1]))

build_name(hand, primary, extras, role) ==
    sCanonPrefix \o hand \o <<"_">> \o primary
        \o (IF extras # <<>> THEN <<"_">> \o join(extras, "_") ELSE <<>>)
        \o (IF role # <<>> THEN <<"_">> \o role ELSE <<>>)

rename_hrm(v) ==
    IF ~startswith(v, sLegacyPrefix) THEN v
    ELSE LET body == normalize_base(Tail(v))
             parts == split(body, "_")
         IN IF Len(parts) < 3 \/ parts[1] # sHRM THEN v
            ELSE IF lower(parts[2]) \notin DOMAIN HAND_MAP THEN v
            ELSE LET hand == HAND_MAP[lower(parts[2])]
                     tokens == format_tokens(SubSeq(parts, 3, Len(parts)))
                 IN IF tokens = <<>> THEN v
                    ELSE LET r == split_role(Tail(tokens), <<>>, <<>>)
                         IN build_name(hand, tokens[1], r.extras, r.role)

canonicalize_bhrm(v) ==
    IF ~startswith(v, sCanonPrefix) THEN v
    ELSE LET tokens == split(From(v, Len(sCanonPrefix) + 1), "_")
             hand == upper(tokens[1])
             rest0 == Tail(tokens)
         IN IF rest0 = <<>> THEN v
            ELSE LET last == lower(rest0[Len(rest0)])
                     hasRole == last \in DOMAIN ROLE_MAP
                     role == IF hasRole THEN ROLE_MAP[last] ELSE <<>>
                     rest == IF hasRole
                             THEN SubSeq(rest0, 1, Len(rest0) - 1)
                             ELSE rest0
                     cleaned == format_tokens(rest)
                 IN IF cleaned = <<>> THEN v
                    ELSE build_name(hand, cleaned[1], Tail(cleaned), role)

-----------------------------------------------------------------------------
(* Names fed to rename_hrm and canonicalize_bhrm                           *)

MaxPieces == 3
MaxTokens == 2
MaxOps == 2

Pieces == {<<"t">>, <<"k","z">>, <<"t","k","z">>, <<"1">>}

RECURSIVE PieceTokens(_)
PieceTokens(n) ==
    IF n = 0 THEN {<<>>}
    ELSE PieceTokens(n - 1)
         \cup {t \o p : t \in PieceTokens(n - 1), p \in Pieces}

WordTokens ==
    {sHold, <<"T","a","p">>, <<"m","i","d","d","y">>, <<"v","2">>,
     <<"x">>}

TokenPool == (PieceTokens(MaxPieces) \ {<<>>}) \cup WordTokens

RECURSIVE TokenLists(_)
TokenLists(n) ==
    IF n = 0 THEN {<<>>}
    ELSE TokenLists(n - 1)
         \cup {Append(l, t) : l \in TokenLists(n - 1), t \in TokenPool}

HandPool == {<<"l","e","f","t">>, <<"R","i","g","h","t">>, <<"l">>}
SuffixPool == {<<>>, <<"_","v","1","B","_","T","K","Z">>}
PrefixPool == {sLegacyPrefix, sCanonPrefix}

InputNames ==
    {p \o h \o <<"_">> \o join(l, "_") \o s :
        p \in PrefixPool, h \in HandPool,
        l \in TokenLists(MaxTokens) \ {<<>>}, s \in SuffixPool}

\* '&HRM_<left|right>_<token...>' with an optional version suffix
WellFormedLegacy(v) ==
    /\ startswith(v, sLegacyPrefix)
    /\ LET parts == split(normalize_base(Tail(v)), "_")
       IN /\ Len(parts) >= 3
          /\ lower(parts[2]) \in DOMAIN HAND_MAP
          /\ \A i \in 3..Len(parts) : parts[i] # <<>>

InitNames ==
    /\ pc = "names"
    /\ value \in InputNames
    /\ prev = <<>>
    /\ ops = <<>>
    /\ IdleCollect /\ IdleLayers /\ IdleDocs /\ IdleFiles /\ IdleCopy

\* transform_strings on a legacy name: rename_hrm(obj)
RenameHrm ==
    /\ pc = "names"
    /\ ops = <<>>
    /\ prev' = Append(prev, value)
    /\ value' = rename_hrm(value)
    /\ ops' = Append(ops, "rename_hrm")
    /\ UNCHANGED <<pc, source, loaded, collectVars, layerVars, fileVars,
                   copyVars>>

\* transform_strings on a canonical name: canonicalize_bhrm(obj)
CanonicalizeBhrm ==
    /\ pc = "names"
    /\ Len(ops) < MaxOps
    /\ prev' = Append(prev, value)
    /\ value' = canonicalize_bhrm(value)
    /\ ops' = Append(ops, "canonicalize_bhrm")
    /\ UNCHANGED <<pc, source, loaded, collectVars, layerVars, fileVars,
                   copyVars>>

NextNames == RenameHrm \/ CanonicalizeBhrm

SpecNames == InitNames /\ [][NextNames]_vars

\* C6: canonicalize_bhrm is idempotent: canonicalizing a name that is
\* already the output of canonicalize_bhrm changes nothing.
C6_CanonicalizeIdempotent ==
    ops = <<"canonicalize_bhrm", "canonicalize_bhrm">> => value = prev[2]

\* C7: the output of rename_hrm on a well-formed legacy name is already
\* canonical: canonicalize_bhrm(rename_hrm(x)) = rename_hrm(x).
C7_RenameThenCanonicalize ==
    (ops = <<"rename_hrm", "canonicalize_bhrm">> /\ WellFormedLegacy(prev[1]))
        => value = prev[2]

-----------------------------------------------------------------------------
(* The strings the scripts name                                            *)

sTrans == <<"&","t","r","a","n","s">>
sMo == <<"&","m","o">>
sKp == <<"&","k","p">>
sBase == <<"B","a","s","e">>
sBaseModded == <<"B","a","s","e","M","o","d","d","e","d">>
sOriginal == <<"O","r","i","g","i","n","a","l">>
sHrmLayer == <<"H","R","M">>
sNav == <<"N","a","v">>
sLower == <<"L","o","w","e","r">>
sMagic == <<"M","a","g","i","c">>

\* Python's None
None == [none |-> TRUE]

-----------------------------------------------------------------------------
(* copy_hrm_bindings.py: collect_support_objects                           *)

\* A JSON string and a JSON integer, where the code tells them apart
StrVal(x) == [str |-> x]
IntVal(i) == [int |-> i]

\* dict.get(key, default)
Get(d, key, default) == IF key \in DOMAIN d THEN d[key] ELSE default

\* {item["name"]: item for item in items}: a later item replaces an earlier
\* one of the same name
RECURSIVE name_map(_)
name_map(items) ==
    IF items = <<>> THEN <<>>
    ELSE LET last == items[Len(items)]
             front == name_map(SubSeq(items, 1, Len(items) - 1))
         IN [n \in (DOMAIN front) \cup {last.name} |->
                IF n = last.name THEN last ELSE front[n]]

holdtap_map(src) == name_map(Get(src, "holdTaps", <<>>))
macro_map(src) == name_map(Get(src, "macros", <<>>))

\* binding_names with the isinstance(binding, dict) branch left out
RECURSIVE binding_names_str_only(_)
binding_names_str_only(bindings) ==
    IF bindings = <<>> THEN <<>>
    ELSE IF "str" \in DOMAIN bindings[1]
    THEN <<bindings[1].str>> \o binding_names_str_only(Tail(bindings))
    ELSE binding_names_str_only(Tail(bindings))

\* The names a definition's bindings hand to enqueue, in order: a bare
\* string is a name, a dict contributes its "value" when that is a string
RECURSIVE binding_names(_)
binding_names(bindings) ==
    IF bindings = <<>> THEN <<>>
    ELSE LET b == bindings[1]
             rest == binding_names(Tail(bindings))
         IN IF "str" \in DOMAIN b THEN <<b.str>> \o rest
            ELSE IF "value" \in DOMAIN b /\ "str" \in DOMAIN b.value
            THEN <<b.value.str>> \o rest
            ELSE rest

\* enqueue(name), for each name in turn
RECURSIVE enqueue_all(_, _, _)
enqueue_all(src, c, ns) ==
    IF ns = <<>> THEN c
    ELSE LET name == ns[1]
             wanted ==
                 \/ name \in DOMAIN holdtap_map(src)
                    /\ name \notin c.seen_holdtaps
                 \/ name \in DOMAIN macro_map(src)
                    /\ name \notin c.seen_macros
         IN enqueue_all(src,
                IF wanted THEN [c EXCEPT !.queue = Append(@, name)] ELSE c,
                Tail(ns))

\* mark_seen with the add forgotten
mark_seen_forgotten(seen, name) == seen

\* seen_holdtaps.add(name), seen_macros.add(name)
mark_seen(seen, name) == seen \cup {name}

collect_start(ns) ==
    [queue |-> ns, seen_holdtaps |-> {}, seen_macros |-> {},
     collected_holdtaps |-> <<>>, collected_macros |-> <<>>]

\* One iteration of "while queue": pop the last name and expand it
collect_step(src, c) ==
    LET name == c.queue[Len(c.queue)]
        popped == [c EXCEPT !.queue = SubSeq(@, 1, Len(@) - 1)]
    IN IF name \in DOMAIN holdtap_map(src) /\ name \notin c.seen_holdtaps
       THEN LET holdtap == holdtap_map(src)[name]
            IN enqueue_all(src,
                   [popped EXCEPT
                       !.collected_holdtaps = Append(@, holdtap),
                       !.seen_holdtaps = mark_seen(@, name)],
                   binding_names(Get(holdtap, "bindings", <<>>)))
       ELSE IF name \in DOMAIN macro_map(src) /\ name \notin c.seen_macros
       THEN LET macro == macro_map(src)[name]
            IN enqueue_all(src,
                   [popped EXCEPT
                       !.collected_macros = Append(@, macro),
                       !.seen_macros = mark_seen(@, name)],
                   binding_names(Get(macro, "bindings", <<>>)))
       ELSE popped

RECURSIVE collect_loop(_, _)
collect_loop(src, c) ==
    IF c.queue = <<>> THEN c ELSE collect_loop(src, collect_step(src, c))

\* The pair (collected_holdtaps, collected_macros) the function returns
collect_support_objects(src, ns) ==
    LET c == collect_loop(src, collect_start(ns))
    IN <<c.collected_holdtaps, c.collected_macros>>

-----------------------------------------------------------------------------
(* Documents and seed lists handed to collect_support_objects              *)

MaxBindings == 2
MaxSeeds == 2

sA == <<"&","A">>
sB == <<"&","B">>

DefNames == {sA, sB}

\* A bare string is [str |-> n]; a dict is a record with its keys
BindingPool == {StrVal(sA), [value |-> StrVal(sB)], [value |-> IntVal(0)]}

RECURSIVE ListsOver(_, _)
ListsOver(S, n) ==
    IF n = 0 THEN {<<>>}
    ELSE ListsOver(S, n - 1)
         \cup {Append(l, x) : l \in ListsOver(S, n - 1), x \in S}

DefPool == {[name |-> n, bindings |-> b] :
               n \in DefNames, b \in ListsOver(BindingPool, MaxBindings)}

\* Names are unique within a collection; at most two definitions in all
CollectDocs ==
    {[holdTaps |-> <<>>, macros |-> <<>>]}
    \cup {[holdTaps |-> <<d>>, macros |-> <<>>] : d \in DefPool}
    \cup {[macros |-> <<d>>] : d \in DefPool}
    \cup {[holdTaps |-> <<d>>, macros |-> <<e>>] : d \in DefPool, e \in DefPool}
    \cup {[holdTaps |-> <<d, e>>, macros |-> <<>>] :
             d \in {x \in DefPool : x.name = sA},
             e \in {x \in DefPool : x.name = sB}}
    \cup {[holdTaps |-> <<>>, macros |-> <<d, e>>] :
             d \in {x \in DefPool : x.name = sA},
             e \in {x \in DefPool : x.name = sB}}

InitCollect ==
    /\ pc = "collect"
    /\ source \in CollectDocs
    /\ names \in ListsOver(DefNames, MaxSeeds)
    /\ collect = collect_start(names)
    /\ loaded = [source |-> source]
    /\ IdleNames /\ IdleLayers /\ IdleFiles /\ IdleCopy

\* "while queue:" with a non-empty queue: one iteration
CollectIterate ==
    /\ pc = "collect"
    /\ collect.queue # <<>>
    /\ collect' = collect_step(source, collect)
    /\ UNCHANGED <<pc, source, loaded, names, nameVars, layerVars, fileVars,
                   copyVars>>

\* "while queue:" with an empty queue: return
CollectReturn ==
    /\ pc = "collect"
    /\ collect.queue = <<>>
    /\ pc' = "collected"
    /\ UNCHANGED <<source, loaded, collectVars, nameVars, layerVars, fileVars,
                   copyVars>>

NextCollect == CollectIterate \/ CollectReturn

SpecCollect == InitCollect /\ [][NextCollect]_vars

NoDuplicates(seq) ==
    \A i \in 1..Len(seq) : \A j \in 1..Len(seq) : seq[i] = seq[j] => i = j

\* C2: collect_support_objects returns no hold-tap definition twice and no
\* macro definition twice, whatever the seeds (repeated names included) and
\* the binding graph (cycles and self-references included).
C2_NoDuplicateDefinitions ==
    /\ NoDuplicates(collect.collected_holdtaps)
    /\ NoDuplicates(collect.collected_macros)

\* A returned run whose seeds repeat a name and whose graph has a cycle
C2_Witness ==
    /\ pc = "collected"
    /\ Len(names) = 2 /\ names[1] = names[2]
    /\ Len(collect.collected_holdtaps) + Len(collect.collected_macros) = 2
    /\ \E d \in Range(collect.collected_holdtaps)
                \cup Range(collect.collected_macros) :
           d.name \in Range(binding_names(d.bindings))

\* The names a definition refers to: a bare string binding is a name, a
\* structured binding contributes its "value"
RefNames(def) ==
    LET bs == Range(Get(def, "bindings", <<>>))
    IN {b.str : b \in {x \in bs : "str" \in DOMAIN x}}
       \cup {b.value.str :
                b \in {x \in bs : "value" \in DOMAIN x
                                  /\ "str" \in DOMAIN x.value}}

DefsOf(src) ==
    Range(Get(src, "holdTaps", <<>>)) \cup Range(Get(src, "macros", <<>>))

RECURSIVE ReachableFrom(_, _)
ReachableFrom(src, R) ==
    LET defined == {d.name : d \in DefsOf(src)}
        step == R \cup {n \in defined :
                          \E d \in DefsOf(src) : d.name \in R /\ n \in RefNames(d)}
    IN IF step = R THEN R ELSE ReachableFrom(src, step)

ReachableNames(src, seeds) ==
    ReachableFrom(src, Range(seeds) \cap {d.name : d \in DefsOf(src)})

NoNameIsBoth(src) ==
    \A h \in Range(Get(src, "holdTaps", <<>>)) :
        \A m \in Range(Get(src, "macros", <<>>)) : h.name # m.name

\* C3: when no name is both a hold-tap and a macro, the definitions
\* collect_support_objects returns are exactly the hold-tap and macro
\* definitions whose name is reachable from a seed by following bindings.
C3_CollectExhaustive ==
    (pc = "collected" /\ NoNameIsBoth(source)) =>
        /\ Range(collect.collected_holdtaps) =
               {d \in Range(Get(source, "holdTaps", <<>>)) :
                   d.name \in ReachableNames(source, names)}
        /\ Range(collect.collected_macros) =
               {d \in Range(Get(source, "macros", <<>>)) :
                   d.name \in ReachableNames(source, names)}

\* A seed hold-tap whose structured binding references one macro that
\* references nothing further: one hold-tap and one macro are returned
C3_Witness ==
    /\ pc = "collected"
    /\ names = <<sA>>
    /\ source = [holdTaps |-> <<[name |-> sA,
                                 bindings |-> <<[value |-> StrVal(sB)]>>]>>,
                 macros |-> <<[name |-> sB, bindings |-> <<>>]>>]
    /\ Len(collect.collected_holdtaps) = 1
    /\ Len(collect.collected_macros) = 1

-----------------------------------------------------------------------------
(* copy_hrm_bindings.py: the layer resolver                                *)

\* list[i] for a Python index i >= 0
At(list, i) == list[i + 1]

\* The "value" cells of the params of the "&mo" bindings of the macros
MoParams(ms) ==
    {p.value :
        p \in UNION {Range(Get(b, "params", <<>>)) :
                        b \in {x \in UNION {Range(Get(m, "bindings", <<>>)) :
                                               m \in Range(ms)} :
                                  Get(x, "value", None) = StrVal(sMo)}}}

collect_macro_layer_indices(ms) ==
    {v.int : v \in {x \in MoParams(ms) : "int" \in DOMAIN x}}

\* {name: idx for idx, name in enumerate(layer_names)}
existing_index(layer_names) ==
    [n \in Range(layer_names) |->
        CHOOSE i \in 0..(Len(layer_names) - 1) :
            /\ At(layer_names, i) = n
            /\ \A j \in 0..(Len(layer_names) - 1) :
                   At(layer_names, j) = n => j <= i]

\* ensure_layers that takes the new index before the append
append_layer_off_by_one(st, name, layer, src_idx) ==
    LET new_idx == Len(st.layer_names) - 1
    IN [mapping |-> (src_idx :> new_idx) @@ st.mapping,
        existing |-> (name :> new_idx) @@ st.existing,
        layer_names |-> Append(st.layer_names, name),
        layers |-> Append(st.layers, layer)]

\* ensure_layers that inserts the missing layer in front
prepend_layer(st, name, layer, src_idx) ==
    [mapping |-> (src_idx :> 0) @@ st.mapping,
     existing |-> (name :> 0) @@ st.existing,
     layer_names |-> <<name>> \o st.layer_names,
     layers |-> <<layer>> \o st.layers]

\* ensure_layers, a name the target lacks: append it and its layer
append_layer(st, name, layer, src_idx) ==
    LET new_idx == Len(Append(st.layer_names, name)) - 1
    IN [mapping |-> (src_idx :> new_idx) @@ st.mapping,
        existing |-> (name :> new_idx) @@ st.existing,
        layer_names |-> Append(st.layer_names, name),
        layers |-> Append(st.layers, layer)]

\* "for src_idx in sorted(needed_indices)": the smallest index first
RECURSIVE ensure_layers_loop(_, _, _)
ensure_layers_loop(src, st, todo) ==
    IF todo = {} THEN st
    ELSE LET src_idx == CHOOSE i \in todo : \A j \in todo : i <= j
             rest == todo \ {src_idx}
         IN IF src_idx < 0 \/ src_idx >= Len(src.layers)
            THEN ensure_layers_loop(src, st, rest)
            ELSE LET name == At(src.layer_names, src_idx)
                 IN IF name \in DOMAIN st.existing
                    THEN ensure_layers_loop(src,
                             [st EXCEPT !.mapping =
                                 (src_idx :> st.existing[name]) @@ @],
                             rest)
                    ELSE ensure_layers_loop(src,
                             append_layer(st, name, At(src.layers, src_idx),
                                          src_idx),
                             rest)

\* The mapping returned and the target as mutated
ensure_layers(src, tgt, needed_indices) ==
    LET st == ensure_layers_loop(src,
                  [mapping |-> <<>>,
                   existing |-> existing_index(tgt.layer_names),
                   layer_names |-> tgt.layer_names,
                   layers |-> tgt.layers],
                  needed_indices)
    IN [mapping |-> st.mapping,
        target |-> [tgt EXCEPT !.layer_names = st.layer_names,
                               !.layers = st.layers]]

remap_param(param, layer_map) ==
    IF "value" \in DOMAIN param /\ "int" \in DOMAIN param.value
       /\ param.value.int \in DOMAIN layer_map
    THEN [param EXCEPT !.value = IntVal(layer_map[param.value.int])]
    ELSE param

remap_binding(binding, layer_map) ==
    IF Get(binding, "value", None) # StrVal(sMo) \/ "params" \notin DOMAIN binding
    THEN binding
    ELSE [binding EXCEPT !.params =
             [i \in 1..Len(@) |-> remap_param(@[i], layer_map)]]

remap_macro_layers(ms, layer_map) ==
    [k \in 1..Len(ms) |->
        IF "bindings" \notin DOMAIN ms[k] THEN ms[k]
        ELSE [ms[k] EXCEPT !.bindings =
                 [i \in 1..Len(@) |-> remap_binding(@[i], layer_map)]]]

-----------------------------------------------------------------------------
(* Documents and macros handed to the layer resolver                       *)

MaxMacros == 2
MaxTargetLayers == 2

LayerNamePool == {sBase, sLower, sMagic, sNav}

RECURSIVE InjectiveLists(_, _)
InjectiveLists(S, n) ==
    IF n = 0 THEN {<<>>}
    ELSE InjectiveLists(S, n - 1)
         \cup UNION {{Append(l, x) : x \in S \ Range(l)} :
                        l \in InjectiveLists(S, n - 1)}

\* A source layer carries its own name, a target layer is transparent
SourceLayer(name) == <<[value |-> StrVal(sKp), params |-> <<[value |-> StrVal(name)]>>]>>
TargetLayer(name) == <<[value |-> StrVal(sTrans), params |-> <<>>]>>

LayerSources ==
    {[layer_names |-> l, layers |-> [i \in 1..Len(l) |-> SourceLayer(l[i])]] :
        l \in {x \in InjectiveLists(LayerNamePool, Cardinality(LayerNamePool)) :
                  Len(x) = Cardinality(LayerNamePool)}}

LayerTargets ==
    {[layer_names |-> l, layers |-> [i \in 1..Len(l) |-> TargetLayer(l[i])]] :
        l \in InjectiveLists(LayerNamePool, MaxTargetLayers) \ {<<>>}}

Mo(ps) == [value |-> StrVal(sMo), params |-> [i \in 1..Len(ps) |-> [value |-> ps[i]]]]

sMacro == <<"&","m">>
sLayerNav == <<"L","A","Y","E","R","_","N","a","v">>

MacroPool ==
    {[name |-> sMacro, bindings |-> <<Mo(<<v>>)>>] :
        v \in {IntVal(-1), IntVal(0), IntVal(1), IntVal(3), IntVal(4), StrVal(sLayerNav)}}
    \cup {[name |-> sMacro, bindings |-> <<Mo(<<IntVal(0), IntVal(3)>>)>>],
          [name |-> sMacro, bindings |->
              <<[value |-> StrVal(sKp), params |-> <<[value |-> IntVal(1)]>>]>>]}

InitLayers ==
    /\ pc = "macros_copied"
    /\ source \in LayerSources
    /\ target \in LayerTargets
    /\ macros \in ListsOver(MacroPool, MaxMacros)
    /\ required_layer_indices = {}
    /\ layer_index_map = <<>>
    /\ loaded = [source |-> source, target |-> target, macros |-> macros]
    /\ IdleNames /\ IdleCollect /\ IdleFiles /\ IdleCopy

\* main: required_layer_indices = collect_macro_layer_indices(macros)
CollectMacroLayerIndices ==
    /\ pc = "macros_copied"
    /\ required_layer_indices' = collect_macro_layer_indices(macros)
    /\ pc' = "indices"
    /\ UNCHANGED <<source, target, macros, layer_index_map, loaded,
                   nameVars, collectVars, fileVars,
                   copyVars>>

\* main: layer_index_map = ensure_layers(source, target, required_layer_indices)
EnsureLayers ==
    /\ pc = "indices"
    /\ LET r == ensure_layers(source, target, required_layer_indices)
       IN /\ layer_index_map' = r.mapping
          /\ target' = r.target
    /\ pc' = "ensured"
    /\ UNCHANGED <<source, macros, required_layer_indices, loaded,
                   nameVars, collectVars, fileVars,
                   copyVars>>

\* main: remap_macro_layers(macros, layer_index_map)
RemapMacroLayers ==
    /\ pc = "ensured"
    /\ macros' = remap_macro_layers(macros, layer_index_map)
    /\ pc' = "remapped"
    /\ UNCHANGED <<source, target, required_layer_indices, layer_index_map,
                   loaded, nameVars, collectVars, fileVars,
                   copyVars>>

NextLayers == CollectMacroLayerIndices \/ EnsureLayers \/ RemapMacroLayers

SpecLayers == InitLayers /\ [][NextLayers]_vars

ValidLayerIndex(doc, i) == 0 <= i /\ i < Len(doc.layer_names)

\* C1: after ensure_layers and remap_macro_layers every integer parameter of
\* every "&mo" binding of every moved macro is a valid index into the
\* target's layer list.
C1_MoParamsValid ==
    pc = "remapped" =>
        \A i \in collect_macro_layer_indices(macros) : ValidLayerIndex(target, i)

IsPrefix(a, b) == Len(a) <= Len(b) /\ SubSeq(b, 1, Len(a)) = a

\* C4: ensure_layers only appends: the target's layer_names and layers as
\* loaded stay an unchanged prefix of what they are after the call.
C4_EnsureLayersAppendOnly ==
    pc \in {"ensured", "remapped"} =>
        /\ IsPrefix(loaded.target.layer_names, target.layer_names)
        /\ IsPrefix(loaded.target.layers, target.layers)
        /\ Len(target.layers) = Len(target.layer_names)

\* ensure_layers has appended two layers to the target
C4_Witness ==
    /\ pc = "ensured"
    /\ Len(target.layers) = Len(loaded.target.layers) + 2

InRange(doc, i) == 0 <= i /\ i < Len(doc.layers)

Occurrences(seq, x) == Cardinality({i \in 1..Len(seq) : seq[i] = x})

\* The needed in-range source indices below i whose name the target lacked
AppendedBefore(i) ==
    {k \in required_layer_indices :
        /\ InRange(source, k)
        /\ k < i
        /\ At(source.layer_names, k) \notin Range(loaded.target.layer_names)}

\* C5: every needed in-range source index i is mapped to an index j whose
\* target layer name is the source layer name at i; a name the target had
\* keeps its index and nothing is appended for it, a name it lacked gets
\* exactly one appended copy of the source layer and its name, at the index
\* that was last when it was appended.
C5_EnsureLayersMapping ==
    pc = "ensured" =>
        \A i \in required_layer_indices :
            InRange(source, i) =>
                /\ i \in DOMAIN layer_index_map
                /\ LET j == layer_index_map[i]
                       name == At(source.layer_names, i)
                       before == loaded.target
                   IN /\ ValidLayerIndex(target, j)
                      /\ At(target.layer_names, j) = name
                      /\ Occurrences(target.layer_names, name) = 1
                      /\ IF name \in Range(before.layer_names)
                         THEN /\ ValidLayerIndex(before, j)
                              /\ At(before.layer_names, j) = name
                              /\ At(target.layers, j) = At(before.layers, j)
                         ELSE /\ j = Len(before.layer_names)
                                     + Cardinality(AppendedBefore(i))
                              /\ At(target.layers, j) = At(source.layers, i)

\* Source layer "Nav" at index 3, absent from the target, is appended and
\* the mapping returned is {3: the new index}
C5_Witness ==
    /\ pc = "ensured"
    /\ At(source.layer_names, 3) = sNav
    /\ sNav \notin Range(loaded.target.layer_names)
    /\ required_layer_indices = {3}
    /\ DOMAIN layer_index_map = {3}
    /\ layer_index_map[3] = Len(loaded.target.layer_names)
    /\ target.layer_names = Append(loaded.target.layer_names, sNav)

-----------------------------------------------------------------------------
(* swap_base_layers.py                                                     *)

\* list.index(x): the first position of x, when there is one
Index(list, x) ==
    CHOOSE i \in 0..(Len(list) - 1) :
        At(list, i) = x /\ \A j \in 0..(i - 1) : At(list, j) # x

is_trans(key) == Get(key, "value", None) = StrVal(sTrans)

\* ensure_params that assigns instead of setdefault
ensure_params_reset(key) ==
    [k \in (DOMAIN key) \cup {"params"} |-> IF k = "params" THEN <<>> ELSE key[k]]

\* key.setdefault("params", [])
ensure_params(key) ==
    IF "params" \in DOMAIN key THEN key
    ELSE [k \in (DOMAIN key) \cup {"params"} |->
             IF k = "params" THEN <<>> ELSE key[k]]

\* The loop over the key positions: what mod_layer and base_layer hold after
promote_keys(base_layer, mod_layer) ==
    [mod |-> [idx \in 1..Len(base_layer) |->
                 IF is_trans(mod_layer[idx]) THEN base_layer[idx]
                 ELSE ensure_params(mod_layer[idx])],
     base |-> [idx \in 1..Len(base_layer) |->
                 IF is_trans(mod_layer[idx])
                 THEN [value |-> StrVal(sTrans), params |-> <<>>]
                 ELSE base_layer[idx]]]

\* The exchange left out
swap_entries_skipped(list, i, j) == list

\* list[i], list[j] = list[j], list[i]
swap_entries(list, i, j) ==
    [k \in 1..Len(list) |->
        IF k = i + 1 THEN At(list, j)
        ELSE IF k = j + 1 THEN At(list, i)
        ELSE list[k]]

\* swap_layers(data): [exit |-> message] on SystemExit, else [data |-> ...]
swap_layers(d) ==
    IF sBase \notin Range(d.layer_names) \/ sBaseModded \notin Range(d.layer_names)
    THEN [exit |-> "Could not find Base or BaseModded layer names."]
    ELSE LET base_idx == Index(d.layer_names, sBase)
             mod_idx == Index(d.layer_names, sBaseModded)
             base_layer == At(d.layers, base_idx)
             mod_layer == At(d.layers, mod_idx)
         IN IF Len(base_layer) # Len(mod_layer)
            THEN [exit |-> "Base and BaseModded layers have different sizes."]
            ELSE LET r == promote_keys(base_layer, mod_layer)
                     layers1 == [d.layers EXCEPT ![base_idx + 1] = r.base,
                                                 ![mod_idx + 1] = r.mod]
                 IN [data |-> [d EXCEPT
                        !.layers = swap_entries(layers1, base_idx, mod_idx),
                        !.layer_names = swap_entries(@, base_idx, mod_idx)]]

-----------------------------------------------------------------------------
(* Documents handed to swap_base_layers.py                                 *)

MaxKeys == 2
MaxRuns == 2

sParamA == <<"A">>
sParamB == <<"B">>
sNone == <<"&","n","o","n","e">>

KeyPool ==
    {[value |-> StrVal(sTrans)],
     [value |-> StrVal(sTrans), params |-> <<>>],
     [value |-> StrVal(sNone)],
     [value |-> StrVal(sKp), params |-> <<[value |-> StrVal(sParamA)]>>],
     [value |-> StrVal(sKp), params |-> <<[value |-> StrVal(sParamB)]>>]}

KeyLayers == ListsOver(KeyPool, MaxKeys) \ {<<>>}

SwapNameLists == InjectiveLists({sBase, sBaseModded, sNav}, 3) \ {<<>>}

SwapDocs ==
    {[layer_names |-> l,
      layers |-> [i \in 1..Len(l) |->
                     IF l[i] = sBase THEN b
                     ELSE IF l[i] = sBaseModded THEN m
                     ELSE SourceLayer(l[i])]] :
        l \in SwapNameLists, b \in KeyLayers, m \in KeyLayers}

InitSwap ==
    /\ pc = "swap_start"
    /\ loaded \in {[data |-> d] : d \in SwapDocs}
    /\ data = <<>>
    /\ output = NoFile
    /\ runs = 1
    /\ source = <<>>
    /\ IdleNames /\ IdleCollect /\ IdleLayers /\ IdleCopy

\* main: data = load_json(input_path); a later run reads what the earlier
\* one wrote to the same path
SwapLoad ==
    /\ pc = "swap_start"
    /\ data' = IF runs = 1 THEN loaded.data ELSE output
    /\ pc' = "swap_loaded"
    /\ UNCHANGED <<output, runs, source, loaded, nameVars, collectVars, layerVars,
                   copyVars>>

\* main: swapped = swap_layers(data)
SwapLayers ==
    /\ pc = "swap_loaded"
    /\ LET r == swap_layers(data)
       IN \/ /\ "exit" \in DOMAIN r
             /\ pc' = "swap_exit"
             /\ UNCHANGED data
          \/ /\ "data" \in DOMAIN r
             /\ pc' = "swapped"
             /\ data' = r.data
    /\ UNCHANGED <<output, runs, source, loaded, nameVars, collectVars, layerVars,
                   copyVars>>

\* main: save_json(output_path, swapped)
SwapSave ==
    /\ pc = "swapped"
    /\ output' = data
    /\ pc' = "swap_saved"
    /\ UNCHANGED <<data, runs, source, loaded, nameVars, collectVars, layerVars,
                   copyVars>>

\* The script is started again on the file it wrote
SwapAgain ==
    /\ pc = "swap_saved"
    /\ runs < MaxRuns
    /\ runs' = runs + 1
    /\ pc' = "swap_start"
    /\ UNCHANGED <<data, output, source, loaded, nameVars, collectVars, layerVars,
                   copyVars>>

NextSwap == SwapLoad \/ SwapLayers \/ SwapSave \/ SwapAgain

SpecSwap == InitSwap /\ [][NextSwap]_vars

\* The layers of the loaded document and where they were
OrigBaseIdx == Index(loaded.data.layer_names, sBase)
OrigModIdx == Index(loaded.data.layer_names, sBaseModded)
OrigBase == At(loaded.data.layers, OrigBaseIdx)
OrigMod == At(loaded.data.layers, OrigModIdx)

TransKey == [value |-> StrVal(sTrans), params |-> <<>>]

\* key is orig, or orig with an empty params list added
SameUpToParams(key, orig) ==
    \/ key = orig
    \/ /\ "params" \notin DOMAIN orig
       /\ DOMAIN key = (DOMAIN orig) \cup {"params"}
       /\ key.params = <<>>
       /\ \A k \in DOMAIN orig : key[k] = orig[k]

C9_SwapOnce ==
    (runs = 1 /\ pc = "swapped") =>
        /\ At(data.layer_names, OrigBaseIdx) = sBaseModded
        /\ At(data.layer_names, OrigModIdx) = sBase
        /\ LET newMod == At(data.layers, OrigBaseIdx)
               newBase == At(data.layers, OrigModIdx)
           IN /\ Len(newMod) = Len(OrigMod) /\ Len(newBase) = Len(OrigBase)
              /\ \A p \in 1..Len(OrigBase) :
                  /\ newMod[p] = IF is_trans(OrigMod[p]) THEN OrigBase[p]
                                 ELSE OrigMod[p]
                  /\ newBase[p] = IF is_trans(OrigMod[p]) THEN TransKey
                                  ELSE OrigBase[p]

\* C9 as amended: the same, except that an original BaseModded key that was
\* not "&trans" and had no params list is held with an empty params list
\* added.
C9_SwapOnceUpToParams ==
    (runs = 1 /\ pc = "swapped") =>
        /\ At(data.layer_names, OrigBaseIdx) = sBaseModded
        /\ At(data.layer_names, OrigModIdx) = sBase
        /\ LET newMod == At(data.layers, OrigBaseIdx)
               newBase == At(data.layers, OrigModIdx)
           IN /\ Len(newMod) = Len(OrigMod) /\ Len(newBase) = Len(OrigBase)
              /\ \A p \in 1..Len(OrigBase) :
                  /\ IF is_trans(OrigMod[p]) THEN newMod[p] = OrigBase[p]
                     ELSE /\ SameUpToParams(newMod[p], OrigMod[p])
                          /\ "params" \in DOMAIN newMod[p]
                  /\ newBase[p] = IF is_trans(OrigMod[p]) THEN TransKey
                                  ELSE OrigBase[p]

\* One swap where every BaseModded key was "&trans": BaseModded is now the
\* original Base layer and Base is all "&trans"
C9_Witness ==
    /\ runs = 1 /\ pc = "swapped"
    /\ Len(OrigBase) = 2
    /\ \A p \in 1..2 : is_trans(OrigMod[p]) /\ ~is_trans(OrigBase[p])
    /\ At(data.layers, OrigBaseIdx) = OrigBase
    /\ At(data.layers, OrigModIdx) = <<TransKey, TransKey>>

-----------------------------------------------------------------------------
(* hrm_utils.py: the whole-document cleanup                                *)

sHrmText == <<"H","R","M","_">>
sTailorKey == <<" ","-"," ","T","a","i","l","o","r","K","e","y">>
sLeft == <<"L","e","f","t">>
sRight == <<"R","i","g","h","t">>
sHoldRole == <<"H","o","l","d">>
sTapRole == <<"T","a","p">>
sHoldActivate == <<"H","o","l","d",":"," ","a","c","t","i","v","a","t","e"," ">>
sLayerWord == <<" ","l","a","y","e","r">>
sTapRestore == <<"T","a","p",":"," ","r","e","s","t","o","r","e"," ","b","a","s","e"," ","k","e","y">>
sCombo == <<"C","o","m","b","o",":"," ">>
sPlus == <<" ","+"," ">>
\* "->" stands for the one character U+2192
sHrmGeneric == <<"H","R","M",":"," ","t","a","p">> \o <<"->">> \o <<"k","e","y",","," ","h","o","l","d">> \o <<"->">> \o <<"l","a","y","e","r">>

HAND_NAMES == (<<"L">> :> sLeft) @@ (<<"R">> :> sRight)

WhitespaceChars == {" ", "\t", "\n", "\r"}

\* sub in s
contains(s, sub) ==
    \E i \in 1..(Len(s) - Len(sub) + 1) : SubSeq(s, i, i + Len(sub) - 1) = sub

\* s.strip()
RECURSIVE strip(_)
strip(s) ==
    IF s = <<>> THEN s
    ELSE IF s[1] \in WhitespaceChars THEN strip(Tail(s))
    ELSE IF s[Len(s)] \in WhitespaceChars THEN strip(SubSeq(s, 1, Len(s) - 1))
    ELSE s

\* current.replace(" - TailorKey", "").strip()
strip_decoration(s) == strip(remove_all(s, sTailorKey))

\* HRM_PATTERN.sub(...): every match of &HRM_[A-Za-z0-9_]+ is renamed
RECURSIVE rename_in_text(_)
rename_in_text(text) ==
    LET IsWordChar(c) == IsAlnum(c) \/ c = "_"
        n == Len(sLegacyPrefix)
    IN IF text = <<>> THEN text
       ELSE IF startswith(text, sLegacyPrefix) /\ Len(text) > n
               /\ IsWordChar(text[n + 1])
       THEN LET last == CHOOSE k \in (n + 1)..Len(text) :
                            /\ \A i \in (n + 1)..k : IsWordChar(text[i])
                            /\ k < Len(text) => ~IsWordChar(text[k + 1])
            IN rename_hrm(SubSeq(text, 1, last))
                   \o rename_in_text(From(text, last + 1))
       ELSE <<text[1]>> \o rename_in_text(Tail(text))

\* transform_strings on a str
transform_string(obj) ==
    IF startswith(obj, sCanonPrefix) THEN canonicalize_bhrm(obj)
    ELSE IF startswith(obj, sLegacyPrefix) THEN rename_hrm(obj)
    ELSE IF contains(obj, sHrmText) THEN rename_in_text(obj)
    ELSE strip_decoration(obj)

\* transform_strings on a tagged JSON value
transform_value(v) ==
    IF "str" \in DOMAIN v THEN StrVal(transform_string(v.str)) ELSE v

\* transform_strings on a key, a binding or a param: a bare string, or a dict
\* with "value" and "params"
RECURSIVE transform_key(_)
transform_key(key) ==
    IF "str" \in DOMAIN key THEN transform_value(key)
    ELSE [k \in DOMAIN key |->
             IF k = "value" THEN transform_value(key[k])
             ELSE IF k = "params"
             THEN [i \in 1..Len(key[k]) |-> transform_key(key[k][i])]
             ELSE key[k]]

\* transform_strings on a hold-tap or macro definition
transform_def(def) ==
    [k \in DOMAIN def |->
        IF k \in {"name", "description"} THEN transform_string(def[k])
        ELSE IF k = "bindings"
        THEN [i \in 1..Len(def[k]) |-> transform_key(def[k][i])]
        ELSE def[k]]

\* transform_strings on a document
transform_strings(d) ==
    [k \in DOMAIN d |->
        IF k = "layer_names"
        THEN [i \in 1..Len(d[k]) |-> transform_string(d[k][i])]
        ELSE IF k = "layers"
        THEN [i \in 1..Len(d[k]) |->
                 [j \in 1..Len(d[k][i]) |-> transform_key(d[k][i][j])]]
        ELSE IF k \in {"holdTaps", "macros"}
        THEN [i \in 1..Len(d[k]) |-> transform_def(d[k][i])]
        ELSE d[k]]

\* parse_bhrm_name: None, or hand, primary, combos and role (<<>> for no role)
parse_bhrm_name(name) ==
    IF ~startswith(name, sCanonPrefix) THEN None
    ELSE LET tokens == split(From(name, Len(sCanonPrefix) + 1), "_")
             hand_key == upper(tokens[1])
             rest0 == Tail(tokens)
         IN IF hand_key \notin DOMAIN HAND_NAMES THEN None
            ELSE IF rest0 = <<>> THEN None
            ELSE LET hasRole == rest0[Len(rest0)] \in {sHoldRole, sTapRole}
                     rest == IF hasRole THEN SubSeq(rest0, 1, Len(rest0) - 1)
                             ELSE rest0
                 IN IF rest = <<>> THEN None
                    ELSE [hand |-> HAND_NAMES[hand_key],
                          primary |-> rest[1],
                          combos |-> Tail(rest),
                          role |-> IF hasRole THEN rest0[Len(rest0)] ELSE <<>>]

\* describe_macro, given info = parse_bhrm_name(name) and base = the current
\* description without its decoration
macro_description(info, base) ==
    IF info = None THEN base
    ELSE IF info.role = sHoldRole
    THEN sHoldActivate \o info.hand \o <<" ">> \o info.primary \o sLayerWord
    ELSE IF info.role = sTapRole THEN sTapRestore
    ELSE base

describe_macro(name, current) ==
    macro_description(parse_bhrm_name(name), strip_decoration(current))

\* describe_holdtap, given the same two values
holdtap_description(info, base) ==
    IF info = None THEN base
    ELSE IF info.combos # <<>>
    THEN sCombo \o join(<<info.primary>> \o info.combos, sPlus)
    ELSE sHrmGeneric

describe_holdtap(name, current) ==
    holdtap_description(parse_bhrm_name(name), strip_decoration(current))

\* Whether name a sorts strictly before name b: str "<", by code point
CodePoints ==
    <<"\t", "\n", "\r", " ", "&", "+", ",", "-", "0","1","2","3","4","5","6",
      "7","8","9", ":", "A","B","C","D","E","F","G","H","I","J","K","L","M",
      "N","O","P","Q","R","S","T","U","V","W","X","Y","Z", "_",
      "a","b","c","d","e","f","g","h","i","j","k","l","m",
      "n","o","p","q","r","s","t","u","v","w","x","y","z", "->">>

Ord(c) == CHOOSE i \in 1..Len(CodePoints) : CodePoints[i] = c

RECURSIVE str_less(_, _)
str_less(a, b) ==
    IF b = <<>> THEN FALSE
    ELSE IF a = <<>> THEN TRUE
    ELSE IF a[1] = b[1] THEN str_less(Tail(a), Tail(b))
    ELSE Ord(a[1]) < Ord(b[1])

\* list.sort(key=name): stable, ascending
RECURSIVE sort_by_name(_)
sort_by_name(items) ==
    IF items = <<>> THEN <<>>
    ELSE LET front == sort_by_name(SubSeq(items, 1, Len(items) - 1))
             x == items[Len(items)]
             key(it) == Get(it, "name", <<>>)
             n == Cardinality({i \in 1..Len(front) :
                                  ~str_less(key(x), key(front[i]))})
         IN SubSeq(front, 1, n) \o <<x>> \o From(front, n + 1)

\* item["description"] = describe(item.get("name", ""), item.get("description", ""))
set_description(def, text) ==
    [k \in (DOMAIN def) \cup {"description"} |->
        IF k = "description" THEN text ELSE def[k]]

\* item["description"] = describe(...) for each item, then the sort by name
describe_and_sort(cleaned) ==
    [k \in DOMAIN cleaned |->
        IF k = "macros"
        THEN sort_by_name(
                 [i \in 1..Len(cleaned[k]) |->
                     set_description(cleaned[k][i],
                         describe_macro(Get(cleaned[k][i], "name", <<>>),
                             Get(cleaned[k][i], "description", <<>>)))])
        ELSE IF k = "holdTaps"
        THEN sort_by_name(
                 [i \in 1..Len(cleaned[k]) |->
                     set_description(cleaned[k][i],
                         describe_holdtap(Get(cleaned[k][i], "name", <<>>),
                             Get(cleaned[k][i], "description", <<>>)))])
        ELSE cleaned[k]]

apply_bhrm_cleanup(d) == describe_and_sort(transform_strings(d))

-----------------------------------------------------------------------------
(* copy_hrm_bindings.py: the rest of main                                  *)

\* d[key] = v, for a key d may lack
With(d, key, v) ==
    [k \in (DOMAIN d) \cup {key} |-> IF k = key THEN v ELSE d[k]]

normalize_value_name(name) ==
    IF startswith(name, <<"&">>) THEN name ELSE <<"&">> \o name

\* find_layer_index: [exit |-> message] on SystemExit, else [idx |-> ...]
find_layer_index(layout, layer_name) ==
    IF layer_name \in Range(layout.layer_names)
    THEN [idx |-> Index(layout.layer_names, layer_name)]
    ELSE [exit |-> "Layer not found."]

\* The (idx, key) pairs of the keys whose value is wanted, in layer order
RECURSIVE collect_layer_entries_from(_, _, _)
collect_layer_entries_from(layer, wanted_values, idx) ==
    IF idx >= Len(layer) THEN <<>>
    ELSE LET key == At(layer, idx)
             rest == collect_layer_entries_from(layer, wanted_values, idx + 1)
         IN IF "value" \in DOMAIN key /\ "str" \in DOMAIN key.value
               /\ key.value.str \in Range(wanted_values)
            THEN <<[idx |-> idx, key |-> key]>> \o rest
            ELSE rest

collect_layer_entries(layer, wanted_values) ==
    collect_layer_entries_from(layer, wanted_values, 0)

\* {key.get("value") for _, key in entries}
entry_values(es) == {es[i].key.value.str : i \in 1..Len(es)}

\* set(wanted_values) - {key.get("value") for _, key in entries}
missing_values(wanted_values, es) == Range(wanted_values) \ entry_values(es)

\* "for idx, key in entries: dst_layer[idx] = copy.deepcopy(key)":
\* [crash |-> ...] on IndexError, else [layer |-> ...]
overwrite_keys(dst_layer, es) ==
    IF \E i \in 1..Len(es) : es[i].idx >= Len(dst_layer)
    THEN [crash |-> "IndexError"]
    ELSE [layer |-> [k \in 1..Len(dst_layer) |->
                        IF \E i \in 1..Len(es) : es[i].idx = k - 1
                        THEN es[CHOOSE i \in 1..Len(es) : es[i].idx = k - 1].key
                        ELSE dst_layer[k]]]

gather_layer_values(src, layer_indices) ==
    UNION {{key.value.str :
               key \in {k \in Range(At(src.layers, idx)) :
                           "value" \in DOMAIN k /\ "str" \in DOMAIN k.value}} :
           idx \in {i \in layer_indices : 0 <= i /\ i < Len(src.layers)}}

\* list(a_set): the elements in an order the run does not fix
Orderings(S) == {l \in InjectiveLists(S, Cardinality(S)) : Len(l) = Cardinality(S)}

upsert_named(collection, item) ==
    LET same(i) == Get(collection[i], "name", None) = Get(item, "name", None)
    IN IF \E i \in 1..Len(collection) : same(i)
       THEN LET first == CHOOSE i \in 1..Len(collection) :
                             same(i) /\ \A j \in 1..(i - 1) : ~same(j)
            IN [collection EXCEPT ![first] = item]
       ELSE Append(collection, item)

RECURSIVE upsert_all(_, _)
upsert_all(collection, items) ==
    IF items = <<>> THEN collection
    ELSE upsert_all(upsert_named(collection, items[1]), Tail(items))

\* "if items: target.setdefault(key, []); for item in items: upsert_named(...)"
upsert_into(tgt, key, items) ==
    IF items = <<>> THEN tgt
    ELSE With(tgt, key, upsert_all(Get(tgt, key, <<>>), items))

-----------------------------------------------------------------------------
(* The copy command: documents, command lines and the steps of main        *)

sLegacyIndex == <<"&","H","R","M","_","l","e","f","t","_","i","n","d","e","x","_","v","1","_","T","K","Z">>
sCanonIndex == <<"&","B","H","R","M","_","L","_","I","n","d","e","x">>
sHrmLayerTitle == <<"I","n","d","e","x"," ","-"," ","T","a","i","l","o","r","K","e","y">>

KpKey == [value |-> StrVal(sKp), params |-> <<[value |-> StrVal(sParamA)]>>]
ValueKey(v) == [value |-> StrVal(v), params |-> <<>>]

\* Hold-taps bind bare behaviour names, macros bind dicts
LegacyHoldTap ==
    [name |-> sLegacyIndex, description |-> sHrmLayerTitle,
     bindings |-> <<StrVal(sMacro), StrVal(sKp)>>]
NavHoldTap == [name |-> sA, bindings |-> <<StrVal(sKp)>>]
LayerMacro(i) == [name |-> sMacro, bindings |-> <<Mo(<<IntVal(i)>>)>>]

CopySources ==
    {[layer_names |-> l,
      layers |-> [i \in 1..Len(l) |-> IF l[i] = sBase THEN b ELSE n],
      holdTaps |-> <<LegacyHoldTap, NavHoldTap>>,
      macros |-> <<LayerMacro(m)>>] :
        l \in {<<sBase, sNav>>, <<sNav, sBase>>},
        b \in {<<ValueKey(sLegacyIndex)>>,
               <<KpKey, ValueKey(sLegacyIndex)>>,
               <<ValueKey(sLegacyIndex), ValueKey(sMacro)>>},
        n \in {<<KpKey>>, <<ValueKey(sA)>>},
        m \in {0, 1, 2}}

CopyTargetLayouts ==
    {[layer_names |-> l, layers |-> [i \in 1..Len(l) |-> k]] :
        l \in {<<sBase>>, <<sBase, sNav>>},
        k \in {<<TransKey>>, <<TransKey, TransKey>>}}

CopyTargets ==
    CopyTargetLayouts
    \cup {With(t, "holdTaps", <<h>>) :
             t \in CopyTargetLayouts,
             h \in {[name |-> sLegacyIndex, bindings |-> <<>>],
                    [name |-> sCanonIndex, bindings |-> <<>>]}}

CopyArgs ==
    {[src_layer |-> s, dst_layer |-> d, values |-> v] :
        s \in {sBase, sLower},
        d \in {sBase, sMagic},
        v \in {<<Tail(sLegacyIndex)>>,
               <<sMacro>>,
               <<sLegacyIndex, sNone>>,
               <<sLegacyIndex, sMacro>>}}

\* wanted_values = [normalize_value_name(v) for v in args.values]
wanted_values == [i \in 1..Len(args.values) |-> normalize_value_name(args.values[i])]

InitCopy ==
    /\ pc = "copy_start"
    /\ loaded \in {[source |-> s, target |-> t] : s \in CopySources, t \in CopyTargets}
    /\ args \in CopyArgs
    /\ source = <<>>
    /\ src_layer_idx = -1
    /\ dst_layer_idx = -1
    /\ entries = <<>>
    /\ holdtaps = <<>>
    /\ data = <<>>
    /\ output = NoFile
    /\ runs = 1
    /\ IdleNames /\ IdleCollect /\ IdleLayers

\* main: source = load_json(source_path); target = load_json(target_path)
CopyLoad ==
    /\ pc = "copy_start"
    /\ source' = loaded.source
    /\ target' = loaded.target
    /\ pc' = "copy_loaded"
    /\ UNCHANGED <<macros, required_layer_indices, layer_index_map, loaded,
                   nameVars, collectVars, fileVars, copyVars>>

\* main: src_layer_idx = find_layer_index(source, args.src_layer), then the
\* same for the target
CopyFindLayers ==
    /\ pc = "copy_loaded"
    /\ LET s == find_layer_index(source, args.src_layer)
           d == find_layer_index(target, args.dst_layer)
       IN \/ /\ "exit" \in DOMAIN s \/ "exit" \in DOMAIN d
             /\ pc' = "copy_exit"
             /\ UNCHANGED <<src_layer_idx, dst_layer_idx>>
          \/ /\ "idx" \in DOMAIN s /\ "idx" \in DOMAIN d
             /\ src_layer_idx' = s.idx
             /\ dst_layer_idx' = d.idx
             /\ pc' = "layers_found"
    /\ UNCHANGED <<source, loaded, args, entries, holdtaps,
                   nameVars, collectVars, layerVars, fileVars>>

\* The copy command with the keys copied before the missing-value check
CopyCheckValuesAfterOverwrite ==
    /\ pc = "layers_found"
    /\ LET es == collect_layer_entries(At(source.layers, src_layer_idx), wanted_values)
           r == overwrite_keys(At(target.layers, dst_layer_idx), es)
       IN /\ entries' = es
          /\ target' = IF "layer" \in DOMAIN r
                       THEN [target EXCEPT !.layers[dst_layer_idx + 1] = r.layer]
                       ELSE target
          /\ pc' = IF missing_values(wanted_values, es) # {}
                   THEN "copy_exit" ELSE "values_checked"
    /\ UNCHANGED <<source, loaded, args, src_layer_idx, dst_layer_idx, holdtaps,
                   macros, required_layer_indices, layer_index_map,
                   nameVars, collectVars, fileVars>>

\* main: entries = collect_layer_entries(...); SystemExit when a wanted value
\* is missing from the source layer
CopyCheckValues ==
    /\ pc = "layers_found"
    /\ LET es == collect_layer_entries(At(source.layers, src_layer_idx), wanted_values)
       IN /\ entries' = es
          /\ pc' = IF missing_values(wanted_values, es) # {}
                   THEN "copy_exit" ELSE "values_checked"
    /\ UNCHANGED <<source, loaded, args, src_layer_idx, dst_layer_idx, holdtaps,
                   nameVars, collectVars, layerVars, fileVars>>

\* main: "for idx, key in entries: dst_layer[idx] = copy.deepcopy(key)"
CopyOverwrite ==
    /\ pc = "values_checked"
    /\ LET r == overwrite_keys(At(target.layers, dst_layer_idx), entries)
       IN \/ /\ "crash" \in DOMAIN r
             /\ pc' = "copy_crash"
             /\ UNCHANGED target
          \/ /\ "layer" \in DOMAIN r
             /\ target' = [target EXCEPT !.layers[dst_layer_idx + 1] = r.layer]
             /\ pc' = "overwritten"
    /\ UNCHANGED <<source, loaded, macros, required_layer_indices,
                   layer_index_map, nameVars, collectVars, fileVars, copyVars>>

\* main: the two calls of collect_support_objects and the deep copies
CopyCollect ==
    /\ pc = "overwritten"
    /\ LET initial_values == entry_values(entries)
       IN \E first \in Orderings(initial_values) :
            LET macros_initial == collect_support_objects(source, first)[2]
                all_required_values ==
                    initial_values \cup
                    gather_layer_values(source,
                        collect_macro_layer_indices(macros_initial))
            IN \E second \in Orderings(all_required_values) :
                 LET r == collect_support_objects(source, second)
                 IN /\ holdtaps' = r[1]
                    /\ macros' = r[2]
    /\ pc' = "macros_copied"
    /\ UNCHANGED <<source, target, required_layer_indices, layer_index_map,
                   loaded, args, src_layer_idx, dst_layer_idx, entries,
                   nameVars, collectVars, fileVars>>

\* main: upsert_named of every collected hold-tap and macro
CopyUpsert ==
    /\ pc = "remapped"
    /\ target' = upsert_into(upsert_into(target, "holdTaps", holdtaps),
                             "macros", macros)
    /\ pc' = "upserted"
    /\ UNCHANGED <<source, loaded, macros, required_layer_indices,
                   layer_index_map, nameVars, collectVars, fileVars, copyVars>>

\* main: target = apply_bhrm_cleanup(target)
CopyCleanup ==
    /\ pc = "upserted"
    /\ target' = apply_bhrm_cleanup(target)
    /\ pc' = "cleaned"
    /\ UNCHANGED <<source, loaded, macros, required_layer_indices,
                   layer_index_map, nameVars, collectVars, fileVars, copyVars>>

\* main: json.dump(target, fh)
CopyWrite ==
    /\ pc = "cleaned"
    /\ output' = target
    /\ pc' = "copy_done"
    /\ UNCHANGED <<data, runs, source, loaded, nameVars, collectVars,
                   layerVars, copyVars>>

NextCopy ==
    \/ CopyLoad \/ CopyFindLayers \/ CopyCheckValues \/ CopyOverwrite
    \/ CopyCollect \/ CollectMacroLayerIndices \/ EnsureLayers
    \/ RemapMacroLayers \/ CopyUpsert \/ CopyCleanup \/ CopyWrite

SpecCopy == InitCopy /\ [][NextCopy]_vars

-----------------------------------------------------------------------------
(* insert_hrm_layer.py                                                     *)

\* list.insert(i, x) for 0 <= i <= len(list)
insert(list, i, x) == SubSeq(list, 1, i) \o <<x>> \o From(list, i + 1)

\* remap_layers_list: [crash |-> ...] on KeyError, else [values |-> ...]
remap_layers_list(values, mapping) ==
    IF \E i \in 1..Len(values) : values[i] >= 0 /\ values[i] \notin DOMAIN mapping
    THEN [crash |-> "KeyError"]
    ELSE [values |-> [i \in 1..Len(values) |->
                         IF values[i] >= 0 THEN mapping[values[i]] ELSE values[i]]]

\* str(key.get("value", "")).startswith("&BHRM_")
is_bhrm(key) ==
    /\ "value" \in DOMAIN key
    /\ "str" \in DOMAIN key.value
    /\ startswith(key.value.str, sCanonPrefix)

\* visit(items): every "layers" list of the items remapped
visit(items, mapping) ==
    IF \E i \in 1..Len(items) :
           "layers" \in DOMAIN items[i]
           /\ "crash" \in DOMAIN remap_layers_list(items[i].layers, mapping)
    THEN [crash |-> "KeyError"]
    ELSE [items |-> [i \in 1..Len(items) |->
                        IF "layers" \in DOMAIN items[i]
                        THEN [items[i] EXCEPT !.layers =
                                 remap_layers_list(@, mapping).values]
                        ELSE items[i]]]

\* {old_idx: new_names.index(name) for old_idx, name in enumerate(old_names)}
index_mapping(old_names, new_names) ==
    [old_idx \in 0..(Len(old_names) - 1) |->
        Index(new_names, At(old_names, old_idx))]

\* insert_hrm_layer(data): [exit |-> message] on SystemExit, [crash |-> ...]
\* on KeyError, else [data |-> ...]
insert_hrm_layer(d) ==
    IF sBase \notin Range(d.layer_names) \/ sOriginal \notin Range(d.layer_names)
    THEN [exit |-> "Base or Original layer missing."]
    ELSE
    LET old_names == d.layer_names
        base_idx == Index(old_names, sBase)
        original_idx == Index(old_names, sOriginal)
        base_layer == At(d.layers, base_idx)
        original_layer == At(d.layers, original_idx)
    IN IF Len(base_layer) # Len(original_layer)
       THEN [exit |-> "Base and Original layers differ in size."]
       ELSE
       LET hrm_positions == {idx \in 0..(Len(base_layer) - 1) :
                                is_bhrm(At(base_layer, idx))}
           hrm_layer == [k \in 1..Len(base_layer) |->
                            IF k - 1 \in hrm_positions THEN base_layer[k]
                            ELSE [value |-> StrVal(sTrans), params |-> <<>>]]
           new_base == [k \in 1..Len(base_layer) |->
                           IF k - 1 \in hrm_positions THEN original_layer[k]
                           ELSE base_layer[k]]
           insert_idx == base_idx + 1
           new_names == insert(old_names, insert_idx, sHrmLayer)
           new_layers == insert([d.layers EXCEPT ![base_idx + 1] = new_base],
                                insert_idx, hrm_layer)
           mapping == index_mapping(old_names, new_names)
           ms == Get(d, "macros", <<>>)
           visited(k) == visit(Get(d, k, <<>>), mapping)
           visitedKeys == {"holdTaps", "combos", "inputListeners"}
       IN IF \/ \E v \in collect_macro_layer_indices(ms) :
                    v \notin DOMAIN mapping
             \/ \E k \in visitedKeys : "crash" \in DOMAIN visited(k)
          THEN [crash |-> "KeyError"]
          ELSE [data |->
                   [k \in DOMAIN d |->
                       IF k = "layer_names" THEN new_names
                       ELSE IF k = "layers" THEN new_layers
                       ELSE IF k = "macros"
                       THEN remap_macro_layers(ms, mapping)
                       ELSE IF k \in visitedKeys THEN visited(k).items
                       ELSE d[k]]]

-----------------------------------------------------------------------------
(* Documents handed to insert_hrm_layer.py, and its main                   *)

InsertNameLists ==
    InjectiveLists({sBase, sOriginal, sHrmLayer}, 3) \ {<<>>}

InsertLayouts ==
    {[layer_names |-> l,
      layers |-> [i \in 1..Len(l) |->
                     IF l[i] = sBase THEN b
                     ELSE IF l[i] = sOriginal THEN o
                     ELSE SourceLayer(l[i])]] :
        l \in InsertNameLists,
        b \in {<<ValueKey(sCanonIndex)>>, <<KpKey>>,
               <<KpKey, ValueKey(sCanonIndex)>>},
        o \in {<<KpKey>>, <<KpKey, ValueKey(sNone)>>}}

InsertDocs ==
    InsertLayouts
    \cup {With(With(d, "macros", <<LayerMacro(m)>>), "holdTaps",
               <<[name |-> sA, layers |-> ls]>>) :
             d \in InsertLayouts, m \in {-1, 0, 1, 2, 3},
             ls \in {<<0, -1>>, <<2>>, <<3>>}}

InitInsert ==
    /\ pc = "insert_start"
    /\ loaded \in {[data |-> d] : d \in InsertDocs}
    /\ data = <<>>
    /\ output = NoFile
    /\ runs = 1
    /\ source = <<>>
    /\ IdleNames /\ IdleCollect /\ IdleLayers /\ IdleCopy

\* main: data = load_json(input_path)
InsertLoad ==
    /\ pc = "insert_start"
    /\ data' = loaded.data
    /\ pc' = "insert_loaded"
    /\ UNCHANGED <<output, runs, source, loaded, nameVars, collectVars,
                   layerVars, copyVars>>

\* main: updated = insert_hrm_layer(data)
InsertHrmLayer ==
    /\ pc = "insert_loaded"
    /\ LET r == insert_hrm_layer(data)
       IN \/ /\ "exit" \in DOMAIN r
             /\ pc' = "insert_exit"
             /\ UNCHANGED data
          \/ /\ "crash" \in DOMAIN r
             /\ pc' = "insert_crash"
             /\ UNCHANGED data
          \/ /\ "data" \in DOMAIN r
             /\ pc' = "inserted"
             /\ data' = r.data
    /\ UNCHANGED <<output, runs, source, loaded, nameVars, collectVars,
                   layerVars, copyVars>>

\* main: save_json(output_path, updated)
InsertSave ==
    /\ pc = "inserted"
    /\ output' = data
    /\ pc' = "insert_saved"
    /\ UNCHANGED <<data, runs, source, loaded, nameVars, collectVars,
                   layerVars, copyVars>>

NextInsert == InsertLoad \/ InsertHrmLayer \/ InsertSave

SpecInsert == InitInsert /\ [][NextInsert]_vars

-----------------------------------------------------------------------------
(* rename_hrm_names.py                                                     *)

sBaseDecorated == sBase \o sTailorKey

RenameDocs ==
    {[layer_names |-> <<l>>,
      layers |-> <<<<k>>>>,
      holdTaps |-> h,
      macros |-> <<[name |-> m, description |-> sHrmLayerTitle,
                    bindings |-> <<Mo(<<IntVal(0)>>)>>]>>] :
        l \in {sBase, sBaseDecorated},
        k \in {KpKey, ValueKey(sLegacyIndex), ValueKey(sCanonIndex)},
        h \in {<<>>, <<LegacyHoldTap>>, <<NavHoldTap, LegacyHoldTap>>},
        m \in {sMacro, sLegacyIndex \o <<"_">> \o sHold}}

InitRename ==
    /\ pc = "rename_start"
    /\ loaded \in {[data |-> d] : d \in RenameDocs}
    /\ data = <<>>
    /\ output = NoFile
    /\ runs = 1
    /\ source = <<>>
    /\ IdleNames /\ IdleCollect /\ IdleLayers /\ IdleCopy

\* main: data = load_json(input_path)
RenameLoad ==
    /\ pc = "rename_start"
    /\ data' = loaded.data
    /\ pc' = "rename_loaded"
    /\ UNCHANGED <<output, runs, source, loaded, nameVars, collectVars,
                   layerVars, copyVars>>

\* main: updated = apply_bhrm_cleanup(data)
RenameCleanup ==
    /\ pc = "rename_loaded"
    /\ data' = apply_bhrm_cleanup(data)
    /\ pc' = "renamed"
    /\ UNCHANGED <<output, runs, source, loaded, nameVars, collectVars,
                   layerVars, copyVars>>

\* main: save_json(output_path, updated)
RenameSave ==
    /\ pc = "renamed"
    /\ output' = data
    /\ pc' = "rename_saved"
    /\ UNCHANGED <<data, runs, source, loaded, nameVars, collectVars,
                   layerVars, copyVars>>

NextRename == RenameLoad \/ RenameCleanup \/ RenameSave

-----------------------------------------------------------------------------
(* The four commands                                                       *)

InitCmd == InitCopy \/ InitSwap \/ InitInsert \/ InitRename

NextCmd == NextCopy \/ NextSwap \/ NextInsert \/ NextRename

SpecCmd == InitCmd /\ [][NextCmd]_vars

-----------------------------------------------------------------------------
(* Claim C10                                                               *)

\* Where a command stands once every transform step is done, once it has
\* written its output, and once it has left through SystemExit
TransformedStates == {"cleaned", "swapped", "inserted", "renamed"}
SavedStates == {"copy_done", "swap_saved", "insert_saved", "rename_saved"}
FatalStates == {"copy_exit", "swap_exit", "insert_exit"}

\* C10: in every command the output file is written only by the write step,
\* which is taken only once all transform steps are done, and what swap,
\* insert and rename write is the whole transform of what they loaded; a run
\* that left through SystemExit (layer name not found, layer lengths differ,
\* a requested value missing from the source layer) takes no further step and
\* has written no output; and in the copy command no key of the target is
\* overwritten before the missing-value check has passed.
C10_WriteOnlyAfterTransforms ==
    /\ [][/\ pc \notin FatalStates
          /\ output' # output =>
                /\ pc \in TransformedStates
                /\ pc' \in SavedStates
                /\ output' = IF pc = "cleaned" THEN target ELSE data]_vars
    /\ [](pc \in FatalStates => output = NoFile)
    /\ []((output # NoFile /\ runs = 1) => pc \in SavedStates)
    /\ [](pc \in {"copy_loaded", "layers_found", "copy_exit"} =>
              target = loaded.target)
    /\ []((pc = "swap_saved" /\ runs = 1) =>
              output = swap_layers(loaded.data).data)
    /\ [](pc = "insert_saved" => output = insert_hrm_layer(loaded.data).data)
    /\ [](pc = "rename_saved" => output = apply_bhrm_cleanup(loaded.data))

\* The copy command has left because a requested value is missing from the
\* source layer while another requested value was found there, and the
\* target still holds none of the found keys
C10_Witness ==
    /\ pc = "copy_exit"
    /\ entries # <<>>
    /\ missing_values(wanted_values, entries) # {}
    /\ \A i \in 1..Len(entries) :
           entries[i].idx < Len(At(target.layers, dst_layer_idx))
           /\ At(At(target.layers, dst_layer_idx), entries[i].idx) # entries[i].key
    /\ output = NoFile

-----------------------------------------------------------------------------
(* Claim C11                                                               *)

\* Where the layer at old index i sits once the HRM layer is inserted
\* behind Base
ShiftedIndex(old_names) ==
    [i \in 0..(Len(old_names) - 1) |->
        IF i <= Index(old_names, sBase) THEN i ELSE i + 1]

\* C11: once insert_hrm_layer has returned, for every document that holds
\* 'Base' and 'Original' (one that already holds a layer named 'HRM'
\* included), the recomputed mapping sends every old index up to that of
\* 'Base' to itself and every later one to its successor, so that every
\* '&mo' parameter of the macros and every entry of a hold-tap's "layers"
\* list names the layer it named before.
C11_InsertIndexMapping ==
    pc = "inserted" =>
        LET old_names == loaded.data.layer_names
            shift == ShiftedIndex(old_names)
        IN /\ index_mapping(old_names, data.layer_names) = shift
           /\ "macros" \in DOMAIN data =>
                  data.macros = remap_macro_layers(loaded.data.macros, shift)
           /\ "holdTaps" \in DOMAIN data =>
                  \A k \in 1..Len(data.holdTaps) :
                      data.holdTaps[k].layers =
                          remap_layers_list(loaded.data.holdTaps[k].layers,
                                            shift).values

-----------------------------------------------------------------------------
(* Claim C12                                                               *)

\* No two entries of the collection bear the same name
UniqueNames(collection) ==
    \A i, j \in 1..Len(collection) :
        collection[i].name = collection[j].name => i = j

\* The names are unique within the hold-taps and within the macros
UniqueDefinitionNames(doc) ==
    /\ UniqueNames(Get(doc, "holdTaps", <<>>))
    /\ UniqueNames(Get(doc, "macros", <<>>))

\* C12: when the names are unique within the hold-taps and within the macros
\* of the source and of the target as loaded, then after the copy command's
\* upsert_named of the collected definitions and apply_bhrm_cleanup the
\* target's hold-taps hold no two entries of the same name and neither do
\* its macros, a target that already holds canonical '&BHRM_' names
\* included.
C12_NamesUniqueAfterCopy ==
    (/\ pc \in {"cleaned", "copy_done"}
     /\ UniqueDefinitionNames(loaded.source)
     /\ UniqueDefinitionNames(loaded.target)) =>
        UniqueDefinitionNames(target)

=============================================================================
